---- MODULE Spec2Model ----
(***************************************************************************)
(* maybe-atomic: the MaybeAtomic* family of src/src/lib.rs.                 *)
(*                                                                         *)
(* One macro, maybe_atomic_type!, generates eleven wrapper types.  Each    *)
(* holds one scalar, in the field `atomic` (a core::sync::atomic type)     *)
(* when the crate is built with the feature "atomic", and in the field     *)
(* `unsync` (a core::cell::Cell) when it is built without it.              *)
(*                                                                         *)
(* The sequential specification, Spec, runs the two builds of one program  *)
(* side by side: every call is made on both, with the same arguments, and  *)
(* each build keeps its own field and its own result.                      *)
(*                                                                         *)
(* The concurrent specification, SpecConc, is the build with the feature   *)
(* "atomic": threads share one cell through &self, and every access is the *)
(* one atomic instruction the wrapper forwards to.  SpecRace is the same   *)
(* threads on the other build, SpecTwo the sequential program with two     *)
(* cells, and SpecMP two threads passing a message through two cells, with *)
(* the visibility each ordering gives.                                     *)
(***************************************************************************)
EXTENDS Integers, Sequences, FiniteSets

VARIABLES
    tyname,     \* cell -> the type of the family it is an instance of
    atomic,     \* cell -> the value in its field `atomic`  (feature "atomic")
    unsync,     \* cell -> the value in its field `unsync`  (no feature "atomic")
    borrow,     \* cell -> whether the &mut returned by get_mut is live
    last,       \* the most recent call, with what each build answered
    wrote,      \* cell -> the most recent call that writes it (history)
    misused,    \* whether some call so far had an ordering invalid for it (history)
    thr,        \* thread -> its call on the shared cell, and the answer
    mo,         \* cell -> the writes to its field `atomic`, in modification order
    view        \* thread -> cell -> the oldest write the thread may still read

vars == <<tyname, atomic, unsync, borrow, last, wrote, misused, thr, mo, view>>

----------------------------------------------------------------------------
(* The type family: lines 143-153, `$tyname: $atomic | $unsync`.           *)

TyNames ==
    { "MaybeAtomicBool",
      "MaybeAtomicU8", "MaybeAtomicU16", "MaybeAtomicU32", "MaybeAtomicU64",
      "MaybeAtomicUsize",
      "MaybeAtomicI8", "MaybeAtomicI16", "MaybeAtomicI32", "MaybeAtomicI64",
      "MaybeAtomicIsize" }

\* $unsync of each instantiation.
UnsyncTy(ty) ==
    CASE ty = "MaybeAtomicBool"  -> "bool"
      [] ty = "MaybeAtomicU8"    -> "u8"
      [] ty = "MaybeAtomicU16"   -> "u16"
      [] ty = "MaybeAtomicU32"   -> "u32"
      [] ty = "MaybeAtomicU64"   -> "u64"
      [] ty = "MaybeAtomicUsize" -> "usize"
      [] ty = "MaybeAtomicI8"    -> "i8"
      [] ty = "MaybeAtomicI16"   -> "i16"
      [] ty = "MaybeAtomicI32"   -> "i32"
      [] ty = "MaybeAtomicI64"   -> "i64"
      [] ty = "MaybeAtomicIsize" -> "isize"

\* The size in bytes of a scalar type (usize, isize: a 64-bit target).
SizeOf(t) ==
    CASE t \in {"bool", "u8", "i8"}                  -> 1
      [] t \in {"u16", "i16"}                        -> 2
      [] t \in {"u32", "i32"}                        -> 4
      [] t \in {"u64", "i64", "usize", "isize"}      -> 8

IsSigned(t) == t \in {"i8", "i16", "i32", "i64", "isize"}

(* A scalar is its object representation: SizeOf(t) bytes, least           *)
(* significant first, two's complement.  u64::MAX and i64::MIN do not fit  *)
(* the checker's integers; their bytes do, and keep the width.             *)
Fill(t, low, high) ==
    [i \in 1..SizeOf(t) |-> IF i = SizeOf(t) THEN high ELSE low]

FALSE_ == <<0>>
TRUE_  == <<1>>

MinValue(t) == IF IsSigned(t) THEN Fill(t, 0, 128) ELSE Fill(t, 0, 0)
MaxValue(t) == IF IsSigned(t) THEN Fill(t, 255, 127) ELSE Fill(t, 255, 255)
Zero(t)     == Fill(t, 0, 0)
AllOnes(t)  == Fill(t, 255, 255)      \* -1 when signed, MAX when unsigned
TopBit(t)   == Fill(t, 0, 128)        \* MIN when signed, 2^(w-1) when unsigned
One(t)      == [i \in 1..SizeOf(t) |-> IF i = 1 THEN 1 ELSE 0]

\* The values of a scalar type the calls are made with, in a fixed order.
SampleSeq(t) ==
    IF t = "bool" THEN <<FALSE_, TRUE_>>
    ELSE IF IsSigned(t)
         THEN <<Zero(t), One(t), MaxValue(t), MinValue(t), AllOnes(t)>>
         ELSE <<Zero(t), One(t), MaxValue(t), TopBit(t)>>

Samples(t) == {SampleSeq(t)[i] : i \in DOMAIN SampleSeq(t)}

ValuesOf == [ty \in TyNames |-> Samples(UnsyncTy(ty))]

Values(ty) == ValuesOf[ty]

----------------------------------------------------------------------------
(* core::sync::atomic::Ordering, line 17.                                  *)

Ordering == {"Relaxed", "Release", "Acquire", "AcqRel", "SeqCst"}

\* What a call answers: a value, nothing (store), a reference, or a panic.
Value(v) == [kind |-> "value", val |-> v]
Unit     == [kind |-> "unit",  val |-> <<>>]
RefMut   == [kind |-> "ref",   val |-> <<>>]
Panic    == [kind |-> "panic", val |-> <<>>]

\* The effect of a call on the field it is made on, and its answer.
Outcome(cell, ret) == [cell |-> cell, ret |-> ret]

(* The library calls the wrappers forward to.  core's atomic load panics   *)
(* for Release and AcqRel, its store for Acquire and AcqRel, before any    *)
(* access; swap takes every ordering.  Cell's get, set and replace take    *)
(* no ordering.                                                            *)
AtomicLoad(a, order) ==
    IF order \in {"Release", "AcqRel"} THEN Outcome(a, Panic)
    ELSE Outcome(a, Value(a))

AtomicStore(a, val, order) ==
    IF order \in {"Acquire", "AcqRel"} THEN Outcome(a, Panic)
    ELSE Outcome(val, Unit)

AtomicSwap(a, val, order) == Outcome(val, Value(a))

CellGet(u) == Outcome(u, Value(u))

CellSet(u, val) == Outcome(val, Unit)

CellReplace(u, val) == Outcome(val, Value(u))

----------------------------------------------------------------------------
(* The private halves of each method, one per build.  Before each stands   *)
(* the faulty variant the properties below are tried against.              *)

\* Fault: only the least significant byte of the initial value is kept.
new_truncated(inner) == [i \in DOMAIN inner |-> IF i = 1 THEN inner[i] ELSE 0]

\* lines 52-58
new_impl_atomic(inner) == inner

\* lines 60-66
new_impl_unsync(inner) == inner

\* Fault: the reference points to a copy of the value, not to the field.
get_mut_of_copy == "copy"

\* lines 74-78: the place the returned &mut points to
get_mut_impl_atomic == "atomic"

\* lines 80-84
get_mut_impl_unsync == "unsync"

\* Fault: the atomic load takes every ordering.
load_unchecked(a, order) == Outcome(a, Value(a))

\* Fault: the atomic load reads the least significant byte only.
load_torn(a, order) ==
    Outcome(a, Value([i \in DOMAIN a |-> IF i = 1 THEN a[i] ELSE 0]))

\* lines 92-96
load_impl_atomic(a, order) == AtomicLoad(a, order)

\* Fault: the load moves the value out and leaves zero (Cell::take).
load_taking(u, _order) == Outcome([i \in DOMAIN u |-> 0], Value(u))

\* lines 98-102
load_impl_unsync(u, _order) == CellGet(u)

\* Fault: the atomic store writes first and checks its ordering afterwards.
store_then_panic(a, val, order) ==
    Outcome(val, IF order \in {"Acquire", "AcqRel"} THEN Panic ELSE Unit)

\* lines 110-114
store_impl_atomic(a, val, order) == AtomicStore(a, val, order)

\* Fault: the plain store writes nothing.
store_dropped(u, val, _order) == Outcome(u, Unit)

\* Fault: the plain store checks its ordering as the atomic one does.
store_checked(u, val, _order) == AtomicStore(u, val, _order)

\* lines 116-120
store_impl_unsync(u, val, _order) == CellSet(u, val)

\* Fault: swap answers with the value it was given (a store, then a load).
swap_returns_new(a, val, order) == Outcome(val, Value(val))

\* Fault: swap checks its ordering as a store does.
swap_checked_as_store(a, val, order) ==
    IF order \in {"Acquire", "AcqRel"} THEN Outcome(a, Panic)
    ELSE AtomicSwap(a, val, order)

\* Fault: swap reads the old value and never writes the new one.
swap_without_write(a, val, order) == Outcome(a, Value(a))

\* lines 128-132
swap_impl_atomic(a, val, order) == AtomicSwap(a, val, order)

\* Fault: replace answers with the value it was given.
replace_returns_new(u, val, _order) == Outcome(val, Value(val))

\* Fault: replace moves the old value out and puts nothing in its place.
replace_leaves_empty(u, val, _order) == Outcome(<<>>, Value(u))

\* Fault: the plain swap rejects the orderings a store rejects, with a panic.
replace_checked(u, val, _order) ==
    IF _order \in {"Acquire", "AcqRel"} THEN Outcome(u, Panic)
    ELSE CellReplace(u, val)

\* lines 134-138
swap_impl_unsync(u, val, _order) == CellReplace(u, val)

----------------------------------------------------------------------------
(* The calls.  `c` names a cell the program holds.                         *)

Cells == DOMAIN tyname

NoVal   == <<>>
NoOrder == "none"

Call(op, c, val, order, ra, ru) ==
    [op |-> op, cell |-> c, val |-> val, order |-> order,
     before_atomic |-> atomic[c], before_unsync |-> unsync[c],
     ret_atomic |-> ra, ret_unsync |-> ru]

Write(op, val, order) == [op |-> op, val |-> val, order |-> order]

\* An ordering core's atomics panic on for this method.
InvalidFor(op, order) ==
    \/ op = "load"  /\ order \in {"Release", "AcqRel"}
    \/ op = "store" /\ order \in {"Acquire", "AcqRel"}

\* pub fn new(inner: $unsync) -> Self: `c = $tyname::new(inner)`, c keeping
\* its type.
New(c, inner) ==
    /\ ~borrow[c]
    /\ inner \in Values(tyname[c])
    /\ tyname' = tyname
    /\ atomic' = [atomic EXCEPT ![c] = new_impl_atomic(inner)]
    /\ unsync' = [unsync EXCEPT ![c] = new_impl_unsync(inner)]
    /\ last' = Call("new", c, inner, NoOrder, Unit, Unit)
    /\ wrote' = [wrote EXCEPT ![c] = Write("new", inner, NoOrder)]
    /\ UNCHANGED <<borrow, misused, thr, mo, view>>

\* pub fn get_mut(&mut self) -> &mut $unsync: the exclusive borrow starts.
GetMut(c) ==
    /\ ~borrow[c]
    /\ borrow' = [borrow EXCEPT ![c] = TRUE]
    /\ last' = Call("get_mut", c, NoVal, NoOrder, RefMut, RefMut)
    /\ UNCHANGED <<tyname, atomic, unsync, wrote, misused, thr, mo, view>>

\* `*r = w` through the reference get_mut returned.
WriteMut(c, w) ==
    /\ borrow[c]
    /\ w \in Values(tyname[c])
    /\ atomic' = IF get_mut_impl_atomic = "atomic"
                  THEN [atomic EXCEPT ![c] = w] ELSE atomic
    /\ unsync' = IF get_mut_impl_unsync = "unsync"
                  THEN [unsync EXCEPT ![c] = w] ELSE unsync
    /\ last' = Call("write_mut", c, w, NoOrder, Unit, Unit)
    /\ wrote' = [wrote EXCEPT ![c] = Write("write_mut", w, NoOrder)]
    /\ UNCHANGED <<tyname, borrow, misused, thr, mo, view>>

\* The reference goes out of scope: the exclusive borrow ends.
EndMut(c) ==
    /\ borrow[c]
    /\ borrow' = [borrow EXCEPT ![c] = FALSE]
    /\ last' = Call("end_mut", c, NoVal, NoOrder, Unit, Unit)
    /\ UNCHANGED <<tyname, atomic, unsync, wrote, misused, thr, mo, view>>

\* Fault: load is let through while the &mut of get_mut is live.
Load_while_borrowed(c, order) ==
    LET a == load_impl_atomic(atomic[c], order)
        u == load_impl_unsync(unsync[c], order)
    IN  /\ atomic' = [atomic EXCEPT ![c] = a.cell]
        /\ unsync' = [unsync EXCEPT ![c] = u.cell]
        /\ last' = Call("load", c, NoVal, order, a.ret, u.ret)
        /\ misused' = (misused \/ InvalidFor("load", order))
        /\ UNCHANGED <<tyname, borrow, wrote, thr, mo, view>>

\* pub fn load(&self, order: Ordering) -> $unsync
Load(c, order) ==
    LET a == load_impl_atomic(atomic[c], order)
        u == load_impl_unsync(unsync[c], order)
    IN  /\ ~borrow[c]
        /\ atomic' = [atomic EXCEPT ![c] = a.cell]
        /\ unsync' = [unsync EXCEPT ![c] = u.cell]
        /\ last' = Call("load", c, NoVal, order, a.ret, u.ret)
        /\ misused' = (misused \/ InvalidFor("load", order))
        /\ UNCHANGED <<tyname, borrow, wrote, thr, mo, view>>

\* Fault: the instances keep their value in one place they all share.
Store_to_all(c, val, order) ==
    LET a == store_impl_atomic(atomic[c], val, order)
        u == store_impl_unsync(unsync[c], val, order)
    IN  /\ ~borrow[c]
        /\ val \in Values(tyname[c])
        /\ atomic' = [k \in Cells |-> a.cell]
        /\ unsync' = [k \in Cells |-> u.cell]
        /\ last' = Call("store", c, val, order, a.ret, u.ret)
        /\ wrote' = [wrote EXCEPT ![c] = Write("store", val, order)]
        /\ misused' = (misused \/ InvalidFor("store", order))
        /\ UNCHANGED <<tyname, borrow, thr, mo, view>>

\* pub fn store(&self, val: $unsync, order: Ordering)
Store(c, val, order) ==
    LET a == store_impl_atomic(atomic[c], val, order)
        u == store_impl_unsync(unsync[c], val, order)
    IN  /\ ~borrow[c]
        /\ val \in Values(tyname[c])
        /\ atomic' = [atomic EXCEPT ![c] = a.cell]
        /\ unsync' = [unsync EXCEPT ![c] = u.cell]
        /\ last' = Call("store", c, val, order, a.ret, u.ret)
        /\ wrote' = [wrote EXCEPT ![c] = Write("store", val, order)]
        /\ misused' = (misused \/ InvalidFor("store", order))
        /\ UNCHANGED <<tyname, borrow, thr, mo, view>>

\* pub fn swap(&self, val: $unsync, order: Ordering) -> $unsync
Swap(c, val, order) ==
    LET a == swap_impl_atomic(atomic[c], val, order)
        u == swap_impl_unsync(unsync[c], val, order)
    IN  /\ ~borrow[c]
        /\ val \in Values(tyname[c])
        /\ atomic' = [atomic EXCEPT ![c] = a.cell]
        /\ unsync' = [unsync EXCEPT ![c] = u.cell]
        /\ last' = Call("swap", c, val, order, a.ret, u.ret)
        /\ wrote' = [wrote EXCEPT ![c] = Write("swap", val, order)]
        /\ UNCHANGED <<tyname, borrow, misused, thr, mo, view>>

----------------------------------------------------------------------------
(* The sequential program: one cell, constructed by new.                   *)

Init ==
    \E ty \in TyNames : \E inner \in Values(ty) :
        /\ tyname = [c \in {"x"} |-> ty]
        /\ atomic = [c \in {"x"} |-> new_impl_atomic(inner)]
        /\ unsync = [c \in {"x"} |-> new_impl_unsync(inner)]
        /\ borrow = [c \in {"x"} |-> FALSE]
        /\ last = [op |-> "new", cell |-> "x", val |-> inner, order |-> NoOrder,
                   before_atomic |-> NoVal, before_unsync |-> NoVal,
                   ret_atomic |-> Unit, ret_unsync |-> Unit]
        /\ wrote = [c \in {"x"} |-> Write("new", inner, NoOrder)]
        /\ misused = FALSE
        /\ thr = <<>>
        /\ mo = <<>>
        /\ view = <<>>

Next ==
    \/ \E c \in Cells : \E inner \in Values(tyname[c]) : New(c, inner)
    \/ \E c \in Cells : GetMut(c)
    \/ \E c \in Cells : \E w \in Values(tyname[c]) : WriteMut(c, w)
    \/ \E c \in Cells : EndMut(c)
    \/ \E c \in Cells : \E order \in Ordering : Load(c, order)
    \/ \E c \in Cells : \E val \in Values(tyname[c]) : \E order \in Ordering :
            Store(c, val, order)
    \/ \E c \in Cells : \E val \in Values(tyname[c]) : \E order \in Ordering :
            Swap(c, val, order)

Spec == Init /\ [][Next]_vars

----------------------------------------------------------------------------
(* The sequential program with two cells, "x" and "y", of the same type or *)
(* of two types, and the same calls on either.                             *)

\* The types of "x" and "y": the same type, and two types.
TwoTyNames ==
    { <<"MaybeAtomicBool", "MaybeAtomicBool">>,
      <<"MaybeAtomicBool", "MaybeAtomicU8">> }

InitTwo ==
    \E tys \in TwoTyNames :
    \E ix \in Values(tys[1]) : \E iy \in Values(tys[2]) :
        LET inner == [c \in {"x", "y"} |-> IF c = "x" THEN ix ELSE iy]
        IN  /\ tyname = [c \in {"x", "y"} |-> IF c = "x" THEN tys[1] ELSE tys[2]]
            /\ atomic = [c \in {"x", "y"} |-> new_impl_atomic(inner[c])]
            /\ unsync = [c \in {"x", "y"} |-> new_impl_unsync(inner[c])]
            /\ borrow = [c \in {"x", "y"} |-> FALSE]
            /\ last = [op |-> "new", cell |-> "y", val |-> iy,
                       order |-> NoOrder,
                       before_atomic |-> NoVal, before_unsync |-> NoVal,
                       ret_atomic |-> Unit, ret_unsync |-> Unit]
            /\ wrote = [c \in {"x", "y"} |-> Write("new", inner[c], NoOrder)]
            /\ misused = FALSE
            /\ thr = <<>>
            /\ mo = <<>>
            /\ view = <<>>

SpecTwo == InitTwo /\ [][Next]_vars

----------------------------------------------------------------------------
(* The concurrent program, built with the feature "atomic": NumThreads     *)
(* threads share the cell "x" by &self.  Each makes one call, load, store  *)
(* or swap, with any ordering; a thread's call and the access it forwards  *)
(* to are separate steps, so calls overlap in every way.  get_mut needs    *)
(* &mut self and cannot be called on a shared cell.                        *)

NumThreads == 2

Threads == 1..NumThreads

Shared == "x"

\* One type of each kind: the wrappers are the same macro body for all.
ConcTyNames == {"MaybeAtomicBool", "MaybeAtomicU16", "MaybeAtomicI64"}

Idle == [pc |-> "idle", op |-> "none", val |-> NoVal, order |-> NoOrder,
         ret |-> Unit]

\* The value thread t passes to store or swap: the threads pass different
\* values as far as the type has enough of them.
ArgOf(t) ==
    LET seq == SampleSeq(UnsyncTy(tyname[Shared]))
    IN  seq[((t - 1) % Len(seq)) + 1]

\* Thread t calls load, store or swap; the access has not happened yet.
Invoke(t, op, order) ==
    /\ thr[t].pc = "idle"
    /\ thr' = [thr EXCEPT ![t] =
                 [pc |-> "called", op |-> op,
                  val |-> IF op = "load" THEN NoVal ELSE ArgOf(t),
                  order |-> order, ret |-> Unit]]
    /\ UNCHANGED <<tyname, atomic, unsync, borrow, last, wrote, misused, mo, view>>

\* Fault: the access waits while another thread's call is in progress (a lock).
Access_after_others(t, out) ==
    /\ \A u \in Threads \ {t} : thr[u].pc # "called"
    /\ atomic' = [atomic EXCEPT ![Shared] = out.cell]
    /\ thr' = [thr EXCEPT ![t].pc = "done", ![t].ret = out.ret]
    /\ UNCHANGED <<tyname, unsync, borrow, last, wrote, misused, mo, view>>

\* The access of thread t's call, one step, and its return.
Access(t, out) ==
    /\ atomic' = [atomic EXCEPT ![Shared] = out.cell]
    /\ thr' = [thr EXCEPT ![t].pc = "done", ![t].ret = out.ret]
    /\ UNCHANGED <<tyname, unsync, borrow, last, wrote, misused, mo, view>>

ExecLoad(t) ==
    /\ thr[t].pc = "called" /\ thr[t].op = "load"
    /\ Access(t, load_impl_atomic(atomic[Shared], thr[t].order))

ExecStore(t) ==
    /\ thr[t].pc = "called" /\ thr[t].op = "store"
    /\ Access(t, store_impl_atomic(atomic[Shared], thr[t].val, thr[t].order))

ExecSwap(t) ==
    /\ thr[t].pc = "called" /\ thr[t].op = "swap"
    /\ Access(t, swap_impl_atomic(atomic[Shared], thr[t].val, thr[t].order))

InitConc ==
    \E ty \in ConcTyNames : \E inner \in Values(ty) :
        /\ tyname = [c \in {Shared} |-> ty]
        /\ atomic = [c \in {Shared} |-> new_impl_atomic(inner)]
        /\ unsync = [c \in {Shared} |-> new_impl_unsync(inner)]
        /\ borrow = [c \in {Shared} |-> FALSE]
        /\ last = [op |-> "new", cell |-> Shared, val |-> inner,
                   order |-> NoOrder,
                   before_atomic |-> NoVal, before_unsync |-> NoVal,
                   ret_atomic |-> Unit, ret_unsync |-> Unit]
        /\ wrote = [c \in {Shared} |-> Write("new", inner, NoOrder)]
        /\ misused = FALSE
        /\ thr = [t \in Threads |-> Idle]
        /\ mo = <<>>
        /\ view = <<>>

NextConc ==
    \/ \E t \in Threads : \E op \in {"load", "store", "swap"} :
            \E order \in Ordering : Invoke(t, op, order)
    \/ \E t \in Threads : ExecLoad(t)
    \/ \E t \in Threads : ExecStore(t)
    \/ \E t \in Threads : ExecSwap(t)

SpecConc == InitConc /\ [][NextConc]_vars

----------------------------------------------------------------------------
(* Message passing on the build with the feature "atomic".  Two cells of   *)
(* one type: "y" carries the data and "x" the flag.  Thread 1, the writer, *)
(* does y.store(v, Relaxed) and then x.store(v, order); every other thread *)
(* is a reader and does x.load(order) and then y.load(Relaxed).            *)
(*                                                                         *)
(* A cell's writes are kept in modification order, each with the view it   *)
(* releases; a thread reads any write not older than its own view.  A      *)
(* releasing store publishes the writer's view, an acquiring load that     *)
(* reads it takes that view over; Relaxed does neither.                    *)

Flag == "x"
Data == "y"

Writer == 1
Readers == Threads \ {Writer}

\* core::sync::atomic::Ordering: the orderings that acquire, and release.
Acquires(order) == order \in {"Acquire", "AcqRel", "SeqCst"}
Releases(order) == order \in {"Release", "AcqRel", "SeqCst"}

\* Fault: the ordering is not handed on, and the store is Relaxed.
store_releases_never(order) == FALSE

\* line 113: the caller's ordering is the one self.atomic.store is given
store_releases_atomic(order) == Releases(order)

\* line 95: the caller's ordering is the one self.atomic.load is given
load_acquires_atomic(order) == Acquires(order)

Msg(val, rel) == [val |-> val, rel |-> rel]

Max(a, b) == IF a >= b THEN a ELSE b

Join(v1, v2) == [k \in DOMAIN v1 |-> Max(v1[k], v2[k])]

\* What a thread has to show: where it is, the ordering of its access to
\* the flag, and the answers of its accesses to the flag and to the data.
Start(val) == [pc |-> "start", order |-> NoOrder, flag |-> Unit,
               data |-> Unit, val |-> val]

\* store(val, order) on cell c by thread t.
StoreEffect(t, c, val, order, out) ==
    IF out.ret = Panic
    THEN UNCHANGED <<atomic, mo, view>>
    ELSE LET ts  == Len(mo[c]) + 1
             now == [view[t] EXCEPT ![c] = ts]
             rel == IF store_releases_atomic(order) THEN now
                    ELSE [k \in Cells |-> IF k = c THEN ts ELSE 1]
         IN  /\ atomic' = [atomic EXCEPT ![c] = out.cell]
             /\ mo' = [mo EXCEPT ![c] = Append(@, Msg(out.cell, rel))]
             /\ view' = [view EXCEPT ![t] = now]

\* load(order) on cell c by thread t, reading the i-th write.
LoadEffect(t, c, order, i, out) ==
    /\ i \in view[t][c]..Len(mo[c])
    /\ view' = IF out.ret = Panic THEN view
               ELSE [view EXCEPT ![t] =
                       IF load_acquires_atomic(order)
                       THEN Join([@ EXCEPT ![c] = i], mo[c][i].rel)
                       ELSE [@ EXCEPT ![c] = i]]
    /\ UNCHANGED <<atomic, mo>>

\* The writer: y.store(v, Relaxed)
WriterData ==
    LET out == store_impl_atomic(atomic[Data], thr[Writer].val, "Relaxed")
    IN  /\ thr[Writer].pc = "start"
        /\ StoreEffect(Writer, Data, thr[Writer].val, "Relaxed", out)
        /\ thr' = [thr EXCEPT ![Writer].pc = "mid", ![Writer].data = out.ret]
        /\ UNCHANGED <<tyname, unsync, borrow, last, wrote, misused>>

\* The writer: x.store(v, order)
WriterFlag(order) ==
    LET out == store_impl_atomic(atomic[Flag], thr[Writer].val, order)
    IN  /\ thr[Writer].pc = "mid"
        /\ StoreEffect(Writer, Flag, thr[Writer].val, order, out)
        /\ thr' = [thr EXCEPT ![Writer].pc = "end", ![Writer].order = order,
                               ![Writer].flag = out.ret]
        /\ UNCHANGED <<tyname, unsync, borrow, last, wrote, misused>>

\* A reader: x.load(order); a panic ends the thread.
ReaderFlag(t, order, i) ==
    /\ thr[t].pc = "start"
    /\ i \in DOMAIN mo[Flag]
    /\ LET out == load_impl_atomic(mo[Flag][i].val, order)
       IN  /\ LoadEffect(t, Flag, order, i, out)
           /\ thr' = [thr EXCEPT ![t].pc = IF out.ret = Panic THEN "end"
                                           ELSE "mid",
                                 ![t].order = order, ![t].flag = out.ret]
    /\ UNCHANGED <<tyname, unsync, borrow, last, wrote, misused>>

\* A reader: y.load(Relaxed)
ReaderData(t, i) ==
    /\ thr[t].pc = "mid"
    /\ i \in DOMAIN mo[Data]
    /\ LET out == load_impl_atomic(mo[Data][i].val, "Relaxed")
       IN  /\ LoadEffect(t, Data, "Relaxed", i, out)
           /\ thr' = [thr EXCEPT ![t].pc = "end", ![t].data = out.ret]
    /\ UNCHANGED <<tyname, unsync, borrow, last, wrote, misused>>

InitMP ==
    \E ty \in ConcTyNames : \E inner \in Values(ty) :
    \E val \in Values(ty) \ {inner} :
        /\ tyname = [c \in {Flag, Data} |-> ty]
        /\ atomic = [c \in {Flag, Data} |-> new_impl_atomic(inner)]
        /\ unsync = [c \in {Flag, Data} |-> new_impl_unsync(inner)]
        /\ borrow = [c \in {Flag, Data} |-> FALSE]
        /\ last = [op |-> "new", cell |-> Data, val |-> inner,
                   order |-> NoOrder,
                   before_atomic |-> NoVal, before_unsync |-> NoVal,
                   ret_atomic |-> Unit, ret_unsync |-> Unit]
        /\ wrote = [c \in {Flag, Data} |-> Write("new", inner, NoOrder)]
        /\ misused = FALSE
        /\ thr = [t \in Threads |-> Start(IF t = Writer THEN val ELSE NoVal)]
        /\ mo = [c \in {Flag, Data} |->
                   <<Msg(new_impl_atomic(inner), [k \in {Flag, Data} |-> 1])>>]
        /\ view = [t \in Threads |-> [k \in {Flag, Data} |-> 1]]

NextMP ==
    \/ WriterData
    \/ \E order \in Ordering : WriterFlag(order)
    \/ \E t \in Readers : \E order \in Ordering : \E i \in DOMAIN mo[Flag] :
            ReaderFlag(t, order, i)
    \/ \E t \in Readers : \E i \in DOMAIN mo[Data] : ReaderData(t, i)

SpecMP == InitMP /\ [][NextMP]_vars

----------------------------------------------------------------------------
(* The same threads on the build without the feature "atomic".  Cell is    *)
(* not Sync, so safe code cannot share the cell: the threads hold it       *)
(* through the caller's own unsafe code, and their accesses race.  get and *)
(* set are one plain read and one plain write; replace is a plain read     *)
(* followed by a plain write, and other threads' accesses fall in between. *)

\* Cell::get of thread t's load.
RaceLoad(t) ==
    LET out == load_impl_unsync(unsync[Shared], thr[t].order)
    IN  /\ thr[t].pc = "called" /\ thr[t].op = "load"
        /\ unsync' = [unsync EXCEPT ![Shared] = out.cell]
        /\ thr' = [thr EXCEPT ![t].pc = "done", ![t].ret = out.ret]
        /\ UNCHANGED <<tyname, atomic, borrow, last, wrote, misused, mo, view>>

\* Cell::set of thread t's store.
RaceStore(t) ==
    LET out == store_impl_unsync(unsync[Shared], thr[t].val, thr[t].order)
    IN  /\ thr[t].pc = "called" /\ thr[t].op = "store"
        /\ unsync' = [unsync EXCEPT ![Shared] = out.cell]
        /\ thr' = [thr EXCEPT ![t].pc = "done", ![t].ret = out.ret]
        /\ UNCHANGED <<tyname, atomic, borrow, last, wrote, misused, mo, view>>

\* Cell::replace of thread t's swap, first half: the old value is read.
RaceSwapRead(t) ==
    LET out == swap_impl_unsync(unsync[Shared], thr[t].val, thr[t].order)
    IN  /\ thr[t].pc = "called" /\ thr[t].op = "swap"
        /\ thr' = [thr EXCEPT ![t].pc = IF out.ret = Panic THEN "done"
                                         ELSE "read",
                               ![t].ret = out.ret]
        /\ UNCHANGED <<tyname, atomic, unsync, borrow, last, wrote, misused, mo, view>>

\* Cell::replace, second half: the new value is written, and swap returns
\* what the first half read.
RaceSwapWrite(t) ==
    LET out == swap_impl_unsync(unsync[Shared], thr[t].val, thr[t].order)
    IN  /\ thr[t].pc = "read"
        /\ unsync' = [unsync EXCEPT ![Shared] = out.cell]
        /\ thr' = [thr EXCEPT ![t].pc = "done"]
        /\ UNCHANGED <<tyname, atomic, borrow, last, wrote, misused, mo, view>>

NextRace ==
    \/ \E t \in Threads : \E op \in {"load", "store", "swap"} :
            \E order \in Ordering : Invoke(t, op, order)
    \/ \E t \in Threads : RaceLoad(t)
    \/ \E t \in Threads : RaceStore(t)
    \/ \E t \in Threads : RaceSwapRead(t)
    \/ \E t \in Threads : RaceSwapWrite(t)

SpecRace == InitConc /\ [][NextRace]_vars

----------------------------------------------------------------------------
(* Properties of the sequential program.                                   *)

\* The cell the most recent call was made on.
Target == last.cell

\* An ordering the atomic build's load, or store, accepts.
LoadOrdering  == {"Relaxed", "Acquire", "SeqCst"}
StoreOrdering == {"Relaxed", "Release", "SeqCst"}

\* The most recent call is a load that the atomic build accepts.
LoadReturned == last.op = "load" /\ last.order \in LoadOrdering

(* C1: swap(c, v2), with any of the five orderings and in both builds,     *)
(* returns the value the cell held immediately before the call and leaves  *)
(* v2 in the cell; a load that follows it, with no other write in between, *)
(* returns v2.                                                             *)
C1_SwapReturnsPrevious ==
    /\ last.op = "swap" =>
           /\ last.ret_atomic = Value(last.before_atomic)
           /\ last.ret_unsync = Value(last.before_unsync)
           /\ atomic[Target] = last.val
           /\ unsync[Target] = last.val
    /\ (last.op = "load" /\ wrote[Target].op = "swap") =>
           /\ last.ret_unsync = Value(wrote[Target].val)
           /\ last.order \in LoadOrdering =>
                  last.ret_atomic = Value(wrote[Target].val)

C1_Witness ==
    /\ last.op = "load" /\ last.order = "Acquire"
    /\ wrote[Target].op = "swap" /\ wrote[Target].order = "AcqRel"
    /\ wrote[Target].val = MaxValue(UnsyncTy(tyname[Target]))
    /\ last.ret_atomic = Value(wrote[Target].val)
    /\ last.ret_unsync = Value(wrote[Target].val)

(* C2: after store(c, v2) with an ordering valid for stores, the next      *)
(* load(c) with an ordering valid for loads returns v2, in both builds and *)
(* whatever the cell held before.                                          *)
C2_StoreThenLoad ==
    ( /\ LoadReturned
      /\ wrote[Target].op = "store"
      /\ wrote[Target].order \in StoreOrdering )
    => /\ last.ret_atomic = Value(wrote[Target].val)
       /\ last.ret_unsync = Value(wrote[Target].val)

C2_Witness ==
    /\ LoadReturned
    /\ wrote[Target].op = "store" /\ wrote[Target].order = "Release"
    /\ wrote[Target].val = AllOnes(UnsyncTy(tyname[Target]))
    /\ last.ret_atomic = Value(wrote[Target].val)
    /\ last.ret_unsync = Value(wrote[Target].val)

(* C3: for each of the eleven types and both builds, load on a cell        *)
(* constructed with new(v) returns v, for every v including the minimum    *)
(* and the maximum of each integer width: every byte of v comes back.      *)
C3_NewThenLoad ==
    (LoadReturned /\ wrote[Target].op = "new")
    => /\ last.ret_atomic = Value(wrote[Target].val)
       /\ last.ret_unsync = Value(wrote[Target].val)
       /\ Len(last.ret_atomic.val) = SizeOf(UnsyncTy(tyname[Target]))

C3_Witness ==
    /\ LoadReturned /\ wrote[Target].op = "new"
    /\ tyname[Target] = "MaybeAtomicI64"
    /\ wrote[Target].val = <<0, 0, 0, 0, 0, 0, 0, 128>>
    /\ last.ret_atomic = Value(<<0, 0, 0, 0, 0, 0, 0, 128>>)
    /\ last.ret_unsync = Value(<<0, 0, 0, 0, 0, 0, 0, 128>>)

(* C4: in both builds, a value w written through the reference get_mut    *)
(* returned is the value the cell holds afterwards: once the borrow has    *)
(* ended, the next load returns w, and the next swap returns w as the      *)
(* previous value.                                                         *)
C4_GetMutWriteObserved ==
    [][ /\ last'.op = "write_mut" =>
              /\ atomic'[last'.cell] = last'.val
              /\ unsync'[last'.cell] = last'.val
        /\ ( /\ last'.op \in {"load", "swap"}
             /\ wrote[last'.cell].op = "write_mut" ) =>
              /\ last'.ret_unsync = Value(wrote[last'.cell].val)
              /\ (last'.op = "load" => last'.order \in LoadOrdering) =>
                     last'.ret_atomic = Value(wrote[last'.cell].val)
      ]_vars

C4_Witness ==
    /\ LoadReturned
    /\ ~borrow[Target]
    /\ wrote[Target].op = "write_mut"
    /\ wrote[Target].val = MinValue(UnsyncTy(tyname[Target]))
    /\ last.ret_atomic = Value(wrote[Target].val)
    /\ last.ret_unsync = Value(wrote[Target].val)

(* C5, as claimed: for any sequence of calls with any orderings, the       *)
(* atomic build and the plain build return the same.                       *)
C5_SameReturnsAnyOrdering == last.ret_atomic = last.ret_unsync

(* C5, amended: for any sequence of calls in which every load has an       *)
(* ordering valid for loads and every store one valid for stores, the two  *)
(* builds return the same and hold the same value.                         *)
C5_SameReturnsValidOrderings ==
    ~misused =>
        /\ last.ret_atomic = last.ret_unsync
        /\ atomic = unsync

C5_Witness ==
    /\ ~misused
    /\ last.op = "swap"
    /\ wrote[Target].val # last.before_atomic
    /\ last.ret_atomic = Value(last.before_atomic)
    /\ last.ret_unsync = last.ret_atomic

(* C7: in the atomic build, load with Release or AcqRel and store with     *)
(* Acquire or AcqRel end in a panic at the call: no value is returned and  *)
(* the call does not complete.                                             *)
C7_InvalidOrderingPanics ==
    /\ (last.op = "load" /\ last.order \in {"Release", "AcqRel"}) =>
           last.ret_atomic = Panic
    /\ (last.op = "store" /\ last.order \in {"Acquire", "AcqRel"}) =>
           last.ret_atomic = Panic

C7_Witness ==
    /\ last.op = "store" /\ last.order = "Acquire"
    /\ last.ret_atomic = Panic

(* C8: nothing else fails.  In the atomic build only a load with Release   *)
(* or AcqRel and a store with Acquire or AcqRel panic: new, get_mut, swap  *)
(* with any ordering, load with Relaxed, Acquire, SeqCst and store with    *)
(* Relaxed, Release, SeqCst do not.  In the plain build no call panics.    *)
C8_NoOtherFailure ==
    /\ last.ret_unsync # Panic
    /\ last.ret_atomic = Panic =>
           \/ last.op = "load"  /\ last.order \in {"Release", "AcqRel"}
           \/ last.op = "store" /\ last.order \in {"Acquire", "AcqRel"}

C8_Witness ==
    /\ misused
    /\ last.op = "swap" /\ last.order = "AcqRel"
    /\ last.ret_atomic = Value(last.before_atomic)
    /\ last.ret_unsync = Value(last.before_unsync)

(* C9: in the plain build the ordering has no effect.  From the same cell  *)
(* value and with the same value argument, load, store and swap return the *)
(* same and leave the same value in the cell for each of the five          *)
(* orderings, those the atomic build panics on included.                   *)
C9_PlainIgnoresOrdering ==
    \A o \in Ordering :
        /\ last.op = "load" =>
               load_impl_unsync(last.before_unsync, o)
                   = Outcome(unsync[Target], last.ret_unsync)
        /\ last.op = "store" =>
               store_impl_unsync(last.before_unsync, last.val, o)
                   = Outcome(unsync[Target], last.ret_unsync)
        /\ last.op = "swap" =>
               swap_impl_unsync(last.before_unsync, last.val, o)
                   = Outcome(unsync[Target], last.ret_unsync)

C9_Witness ==
    /\ last.op = "store" /\ last.order = "AcqRel"
    /\ last.before_unsync # last.val
    /\ unsync[Target] = last.val
    /\ last.ret_unsync = Unit

(* C10: load never changes the value the cell holds, and a load that       *)
(* follows a load of the same cell returns the same value, in both builds  *)
(* and for every ordering valid for loads.                                 *)
C10_LoadIdempotent ==
    [][ last'.op = "load" =>
          /\ atomic' = atomic
          /\ unsync' = unsync
          /\ ( /\ last.op = "load" /\ last.cell = last'.cell
               /\ last.order \in LoadOrdering
               /\ last'.order \in LoadOrdering ) =>
                 /\ last'.ret_atomic = last.ret_atomic
                 /\ last'.ret_unsync = last.ret_unsync
      ]_vars

C10_Witness ==
    /\ LoadReturned
    /\ last.ret_atomic = Value(atomic[Target])
    /\ last.before_atomic = atomic[Target]
    /\ last.ret_unsync = Value(unsync[Target])
    /\ last.before_unsync = unsync[Target]

----------------------------------------------------------------------------
(* Properties of the concurrent program.                                   *)

\* The threads whose swap has returned.
Swapped == {t \in Threads : thr[t].pc = "done" /\ thr[t].op = "swap"}

\* No store has written the cell.
NoStoreDone ==
    \A t \in Threads :
        ~(thr[t].pc = "done" /\ thr[t].op = "store" /\ thr[t].ret = Unit)

\* The value the shared cell was constructed with.
Constructed == wrote[Shared].val

\* The swaps that returned passed values different from each other and from
\* the value the cell was constructed with.
DistinctSwaps ==
    /\ \A t \in Swapped : thr[t].val # Constructed
    /\ \A t1, t2 \in Swapped : t1 # t2 => thr[t1].val # thr[t2].val

(* C6: in the atomic build swap is one step among concurrent swap, load    *)
(* and store calls on the same cell.  While only swaps have written the    *)
(* cell, each value is as often returned by a swap or held by the cell as  *)
(* it was constructed with or swapped in; with pairwise distinct values,   *)
(* no two swaps return the same value and none is lost.                    *)
C6_SwapIndivisible ==
    NoStoreDone =>
        /\ \A t \in Swapped : thr[t].ret.kind = "value"
        /\ \A v \in Values(tyname[Shared]) :
               Cardinality({t \in Swapped : thr[t].ret = Value(v)})
                   + (IF atomic[Shared] = v THEN 1 ELSE 0)
               = Cardinality({t \in Swapped : thr[t].val = v})
                   + (IF Constructed = v THEN 1 ELSE 0)
        /\ DistinctSwaps =>
               /\ \A t1, t2 \in Swapped :
                      t1 # t2 => thr[t1].ret # thr[t2].ret
               /\ \A t \in Swapped : thr[t].ret # Value(atomic[Shared])
               /\ {thr[t].ret.val : t \in Swapped} \cup {atomic[Shared]}
                      = {thr[t].val : t \in Swapped} \cup {Constructed}

C6_Witness ==
    /\ Swapped = Threads
    /\ DistinctSwaps
    /\ thr[1].ret = Value(thr[2].val)
    /\ thr[2].ret = Value(Constructed)
    /\ atomic[Shared] = thr[1].val

----------------------------------------------------------------------------
(* Further properties of the sequential program.                           *)

\* v is a value of the scalar type t: all its bytes, and 0 or 1 for a bool.
Representable(t, v) ==
    /\ DOMAIN v = 1..SizeOf(t)
    /\ \A i \in DOMAIN v : v[i] \in 0..255
    /\ t = "bool" => v \in {FALSE_, TRUE_}

(* C11: in every state, from construction on and after any sequence of     *)
(* load, store, swap, writes through get_mut and failed calls, each cell   *)
(* holds one value of its scalar type, in both builds: it is never empty,  *)
(* also not after a swap or a panic.                                       *)
C11_AlwaysOneValue ==
    \A c \in Cells :
        /\ Representable(UnsyncTy(tyname[c]), atomic[c])
        /\ Representable(UnsyncTy(tyname[c]), unsync[c])
        /\ atomic[c] \in Values(tyname[c])
        /\ unsync[c] \in Values(tyname[c])

C11_Witness ==
    /\ misused
    /\ last.op = "swap"
    /\ last.val = MinValue(UnsyncTy(tyname[Target]))
    /\ last.before_atomic # last.before_unsync
    /\ atomic[Target] = last.val
    /\ unsync[Target] = last.val

(* C15: in both builds, while the &mut obtained from get_mut is live, no   *)
(* load, store, swap, new or second get_mut happens on that cell: every    *)
(* step on it is a write through the reference or the end of the borrow,   *)
(* and its value changes by such a write only.                             *)
C15_BorrowExclusive ==
    [][ \A c \in Cells :
          borrow[c] =>
            /\ last'.cell = c => last'.op \in {"write_mut", "end_mut"}
            /\ (atomic'[c] # atomic[c] \/ unsync'[c] # unsync[c]) =>
                   (last'.cell = c /\ last'.op = "write_mut")
      ]_vars

C15_Witness ==
    /\ borrow[Target]
    /\ last.op = "write_mut"
    /\ last.before_atomic # last.val
    /\ atomic[Target] = last.val
    /\ unsync[Target] = last.val

(* C16: in the atomic build a call that panics on its ordering leaves the  *)
(* cell as it was: after store(v, Acquire) or store(v, AcqRel) the cell    *)
(* holds the value it held before and not v, and a load that panics        *)
(* changes nothing.                                                        *)
C16_FailedCallNoEffect ==
    last.ret_atomic = Panic =>
        /\ atomic[Target] = last.before_atomic
        /\ last.op = "store" =>
               (last.val # last.before_atomic => atomic[Target] # last.val)

C16_Witness ==
    /\ last.op = "store" /\ last.order = "AcqRel"
    /\ last.ret_atomic = Panic
    /\ last.val # last.before_atomic
    /\ atomic[Target] = last.before_atomic

----------------------------------------------------------------------------
(* Further properties of the concurrent program.                           *)

\* The access of thread t's call, whichever method it called.
Exec(t) == ExecLoad(t) \/ ExecStore(t) \/ ExecSwap(t)

(* C12: no call blocks.  In every state, whatever the other threads are    *)
(* doing to the cell, the access of each started load, store or swap can   *)
(* be taken at once, no other thread stepping first, and a thread that has *)
(* not called yet can call.                                                *)
C12_NeverBlocks ==
    \A t \in Threads :
        /\ thr[t].pc = "called" => ENABLED Exec(t)
        /\ thr[t].pc = "idle" =>
               \A op \in {"load", "store", "swap"} : \A order \in Ordering :
                   ENABLED Invoke(t, op, order)

C12_Witness ==
    /\ \A t \in Threads : thr[t].pc = "called"
    /\ thr[1].op = "swap"
    /\ thr[2].op = "store" /\ thr[2].order = "Acquire"
    /\ ENABLED Exec(1)
    /\ ENABLED Exec(2)

\* The values given to the cell by the calls that have started: the one it
\* was constructed with, and those passed to store and swap.
Given ==
    {Constructed} \cup
    {thr[u].val : u \in {w \in Threads : /\ thr[w].pc # "idle"
                                         /\ thr[w].op \in {"store", "swap"}}}

(* C17: in the atomic build, in every interleaving of concurrent load,     *)
(* store and swap calls on a shared cell, a value returned by a load or a  *)
(* swap is the value the cell was constructed with or a value passed to a  *)
(* store or swap that started before the return: never a mixed, partial or *)
(* invented one.                                                           *)
C17_NoValueOutOfThinAir ==
    [][ \A t \in Threads :
          ( /\ thr[t].pc = "called"
            /\ thr'[t].pc = "done"
            /\ thr'[t].ret.kind = "value" ) =>
          thr'[t].ret.val \in Given
      ]_vars

C17_Witness ==
    /\ thr[1].pc = "done" /\ thr[1].op = "load"
    /\ thr[2].pc = "done" /\ thr[2].op = "swap"
    /\ thr[2].ret = Value(Constructed)
    /\ thr[1].ret = Value(thr[2].val)
    /\ thr[2].val # Constructed
    /\ tyname[Shared] = "MaybeAtomicI64"

----------------------------------------------------------------------------
(* Properties of the program with two cells.                               *)

(* C18: cells are independent.  A store, a swap, a write through get_mut,  *)
(* a new or a call that panics on one cell leaves the value of every other *)
(* cell, of the same or of another scalar type, as it was, in both builds. *)
C18_CellsIndependent ==
    [][ \A c \in Cells :
          c # last'.cell =>
            /\ atomic'[c] = atomic[c]
            /\ unsync'[c] = unsync[c]
            /\ tyname'[c] = tyname[c]
      ]_vars

C18_Witness ==
    /\ last.op = "store" /\ last.cell = "x" /\ last.order = "Release"
    /\ last.val # last.before_atomic
    /\ atomic["x"] = last.val
    /\ wrote["y"].op = "swap"
    /\ atomic["y"] = wrote["y"].val
    /\ unsync["y"] = wrote["y"].val
    /\ atomic["y"] # atomic["x"]
    /\ tyname["x"] # tyname["y"]

----------------------------------------------------------------------------
(* Properties of the racing threads on the plain build.                    *)

----------------------------------------------------------------------------
(* Properties of message passing.                                          *)

\* The value the writer stores to the data and then to the flag.
Sent == thr[Writer].val

(* C13: in the atomic build the caller's ordering is the one the access    *)
(* obeys.  When the writer stores the flag with Release or SeqCst, a       *)
(* reader whose load of the flag with Acquire or SeqCst returns the stored *)
(* value reads the written data afterwards.  With Relaxed on either side   *)
(* this is not guaranteed: the reader that has read the flag can still     *)
(* read the data as constructed.                                           *)
C13_OrderingObeyed ==
    \A t \in Readers :
        /\ ( /\ thr[t].pc = "end"
             /\ thr[t].flag = Value(Sent)
             /\ thr[Writer].order \in {"Release", "SeqCst"}
             /\ thr[t].order \in {"Acquire", "SeqCst"} ) =>
               thr[t].data = Value(Sent)
        /\ ( /\ thr[t].pc = "mid"
             /\ thr[t].flag = Value(Sent)
             /\ (thr[Writer].order = "Relaxed" \/ thr[t].order = "Relaxed") ) =>
               ENABLED ReaderData(t, 1)

C13_Witness ==
    /\ thr[2].pc = "end"
    /\ thr[Writer].order = "Release"
    /\ thr[2].order = "Acquire"
    /\ thr[2].flag = Value(Sent)
    /\ thr[2].data = Value(Sent)
    /\ view[2][Data] = 2

====
